---- MODULE Spec2Model ----
(***************************************************************************)
(* A model of go-bouncer's request handlers (src/handlers.go): the version *)
(* comparison, the legacy (Windows XP / Vista) product pinning, the mirror *)
(* selection and BouncerHandler.ServeHTTP.                                 *)
(*                                                                         *)
(* Go strings that the code takes apart (products, versions, user agents)  *)
(* are sequences of one-character strings, so Split, HasSuffix, Contains,  *)
(* TrimRightFunc and Atoi are computed as the library computes them.       *)
(* Strings the code only compares with "" and concatenates (mirror bases,  *)
(* header names, language tags) are TLA+ strings; a composed URL is the    *)
(* sequence of the pieces that were concatenated, "" being << >>.          *)
(***************************************************************************)
EXTENDS Integers, Sequences, FiniteSets, TLC

(***************************************************************************)
(* Bounds                                                                  *)
(***************************************************************************)
\* the largest number of dot-separated segments of a version handed to
\* compareVersions directly
MaxCmpSegs == 2
\* the largest number of dot-separated segments of a version inside a product
MaxVerSegs == 3

(***************************************************************************)
(* The strings package, on sequences of characters                         *)
(***************************************************************************)
Digits == {"0", "1", "2", "3", "4", "5", "6", "7", "8", "9"}

DigitVal(c) ==
  CASE c = "0" -> 0 [] c = "1" -> 1 [] c = "2" -> 2 [] c = "3" -> 3
    [] c = "4" -> 4 [] c = "5" -> 5 [] c = "6" -> 6 [] c = "7" -> 7
    [] c = "8" -> 8 [] c = "9" -> 9

\* strings.HasSuffix
HasSuffix(s, suf) ==
  Len(suf) <= Len(s) /\ SubSeq(s, Len(s) - Len(suf) + 1, Len(s)) = suf

\* strings.Index, 1-based; 0 when sub does not occur in s
Index(s, sub) ==
  LET at == {i \in 1..(Len(s) - Len(sub) + 1) : SubSeq(s, i, i + Len(sub) - 1) = sub}
  IN  IF at = {} THEN 0 ELSE CHOOSE i \in at : \A j \in at : i <= j

\* strings.Contains
Contains(s, sub) == Index(s, sub) # 0

\* strings.Split(s, sep), sep one character
RECURSIVE Split(_, _)
Split(s, sep) ==
  LET i == Index(s, <<sep>>)
  IN  IF i = 0 THEN <<s>>
      ELSE <<SubSeq(s, 1, i - 1)>> \o Split(SubSeq(s, i + 1, Len(s)), sep)

\* strings.SplitN(s, sep, 2), sep one character: at most two parts, the
\* second being the unsplit remainder
SplitN2(s, sep) ==
  LET i == Index(s, <<sep>>)
  IN  IF i = 0 THEN <<s>>
      ELSE <<SubSeq(s, 1, i - 1), SubSeq(s, i + 1, Len(s))>>

\* !unicode.IsNumber(r); the digits are the only numbers among the characters
\* of the versions modelled
isNotNumber(r) == r \notin Digits

\* strings.TrimRightFunc(s, isNotNumber)
RECURSIVE TrimRightNotNumber(_)
TrimRightNotNumber(s) ==
  IF s = << >> THEN s
  ELSE IF isNotNumber(s[Len(s)]) THEN TrimRightNotNumber(SubSeq(s, 1, Len(s) - 1))
  ELSE s

RECURSIVE DecimalValue(_)
DecimalValue(s) ==
  IF s = << >> THEN 0
  ELSE 10 * DecimalValue(SubSeq(s, 1, Len(s) - 1)) + DigitVal(s[Len(s)])

\* strconv.Atoi: an optional sign, then one or more digits; anything else is
\* an error.  The versions of this model stay far below the int range, where
\* Atoi reports an error too.
Atoi(s) ==
  LET signed == s # << >> /\ s[1] \in {"+", "-"}
      body   == IF signed THEN SubSeq(s, 2, Len(s)) ELSE s
      ok     == body # << >> /\ \A i \in 1..Len(body) : body[i] \in Digits
  IN  [err |-> ~ok,
       val |-> IF ~ok THEN 0
               ELSE IF signed /\ s[1] = "-" THEN 0 - DecimalValue(body)
               ELSE DecimalValue(body)]

\* the `aInt, err := strconv.Atoi(strings.TrimRightFunc(ver, isNotNumber));
\* if err != nil { aInt = 0 }` of compareVersions
segmentInt(ver) ==
  LET r == Atoi(TrimRightNotNumber(ver))
  IN  IF r.err THEN 0 ELSE r.val

(***************************************************************************)
(* compareVersions                                                         *)
(***************************************************************************)
RECURSIVE compareParts(_, _, _)
compareParts(aParts, bParts, i) ==
  IF i > Len(aParts) THEN 0
  ELSE IF Len(bParts) < i THEN 1
  ELSE LET aInt == segmentInt(aParts[i])
           bInt == segmentInt(bParts[i])
       IN  IF aInt > bInt THEN 1
           ELSE IF aInt < bInt THEN -1
           ELSE compareParts(aParts, bParts, i + 1)

compareVersions(a, b) ==
  IF a = b THEN 0
  ELSE compareParts(Split(a, "."), Split(b, "."), 1)

(***************************************************************************)
(* String literals of the source                                           *)
(***************************************************************************)
sFirefox == <<"f", "i", "r", "e", "f", "o", "x">>
sThunderbird == <<"t", "h", "u", "n", "d", "e", "r", "b", "i", "r", "d">>
sBeta == <<"b", "e", "t", "a">>
sLatest == <<"l", "a", "t", "e", "s", "t">>
sBetaLatest == sBeta \o <<"-">> \o sLatest
sSsl == <<"s", "s", "l">>
sDashSsl == <<"-">> \o sSsl
sDashSha1 == <<"-", "s", "h", "a", "1">>
sDashComplete == <<"-", "c", "o", "m", "p", "l", "e", "t", "e">>
sDashPartialDash == <<"-", "p", "a", "r", "t", "i", "a", "l", "-">>
sDashStub == <<"-", "s", "t", "u", "b">>
sDotZeroB == <<".", "0", "b">>

DefaultLang == "en-US"
DefaultOS == "win"
firefoxSHA1ESRAliasSuffix == <<"s", "h", "a", "1">>

tBirdWinXPLastRelease == [Version |-> <<"3", "8", ".", "5", ".", "0">>]
tBirdWinXPLastBeta == [Version |-> <<"4", "3", ".", "0", "b", "1">>]

(***************************************************************************)
(* The pinning of a product for a Windows XP / Vista client                *)
(***************************************************************************)
\* tBirdSha1Product with the "beta" alias answered by a stale hard-coded
\* version instead of tBirdWinXPLastBeta
tBirdSha1ProductStaleBeta(productSuffix) ==
  IF productSuffix \in {sBeta, sBetaLatest} THEN <<"4", "4", ".", "0", "b", "1">>
  ELSE IF productSuffix = sSsl THEN tBirdWinXPLastRelease.Version \o sDashSsl
  ELSE IF productSuffix = sLatest THEN tBirdWinXPLastRelease.Version
  ELSE
    LET productSuffixParts == SplitN2(productSuffix, "-")
        ver == productSuffixParts[1]
        possibleVersion == IF Contains(ver, sDotZeroB) THEN tBirdWinXPLastBeta
                           ELSE tBirdWinXPLastRelease
    IN  IF compareVersions(ver, possibleVersion.Version) = -1 THEN productSuffix
        ELSE IF Len(productSuffixParts) = 1 THEN possibleVersion.Version
        ELSE IF productSuffixParts[2] = sSsl THEN possibleVersion.Version \o sDashSsl
        ELSE productSuffix

\* tBirdSha1Product carrying every qualifier over to the ceiling, not only
\* "ssl"
tBirdSha1ProductAnyQualifier(productSuffix) ==
  IF productSuffix \in {sBeta, sBetaLatest} THEN tBirdWinXPLastBeta.Version
  ELSE IF productSuffix = sSsl THEN tBirdWinXPLastRelease.Version \o sDashSsl
  ELSE IF productSuffix = sLatest THEN tBirdWinXPLastRelease.Version
  ELSE
    LET productSuffixParts == SplitN2(productSuffix, "-")
        ver == productSuffixParts[1]
        possibleVersion == IF Contains(ver, sDotZeroB) THEN tBirdWinXPLastBeta
                           ELSE tBirdWinXPLastRelease
    IN  IF compareVersions(ver, possibleVersion.Version) = -1 THEN productSuffix
        ELSE IF Len(productSuffixParts) = 1 THEN possibleVersion.Version
        ELSE possibleVersion.Version \o <<"-">> \o productSuffixParts[2]

tBirdSha1Product(productSuffix) ==
  IF productSuffix \in {sBeta, sBetaLatest} THEN tBirdWinXPLastBeta.Version
  ELSE IF productSuffix = sSsl THEN tBirdWinXPLastRelease.Version \o sDashSsl
  ELSE IF productSuffix = sLatest THEN tBirdWinXPLastRelease.Version
  ELSE
    LET productSuffixParts == SplitN2(productSuffix, "-")
        ver == productSuffixParts[1]
        possibleVersion == IF Contains(ver, sDotZeroB) THEN tBirdWinXPLastBeta
                           ELSE tBirdWinXPLastRelease
    IN  IF compareVersions(ver, possibleVersion.Version) = -1 THEN productSuffix
        ELSE IF Len(productSuffixParts) = 1 THEN possibleVersion.Version
        ELSE IF productSuffixParts[2] = sSsl THEN possibleVersion.Version \o sDashSsl
        ELSE productSuffix

firefoxSha1Product(productSuffix) ==
  IF HasSuffix(productSuffix, sDashSha1) THEN productSuffix
  ELSE IF HasSuffix(productSuffix, sDashComplete)
          \/ Contains(productSuffix, sDashPartialDash) THEN productSuffix
  ELSE firefoxSHA1ESRAliasSuffix

sha1Product(product) ==
  LET productParts == SplitN2(product, "-")
  IN  IF Len(productParts) = 1 THEN product
      ELSE IF productParts[1] = sFirefox
        THEN sFirefox \o <<"-">> \o firefoxSha1Product(productParts[2])
      ELSE IF productParts[1] = sThunderbird
        THEN sThunderbird \o <<"-">> \o tBirdSha1Product(productParts[2])
      ELSE product

(***************************************************************************)
(* The Windows XP / Vista detection                                        *)
(***************************************************************************)
\* the alternatives of windowsXPRegex, `Windows (?:NT 5.1|XP|NT 5.2|NT 6.0)`;
\* "ANY" stands for the regular expression's `.`, which matches any
\* character
sWindowsSp == <<"W", "i", "n", "d", "o", "w", "s", " ">>
windowsXPRegex ==
  { sWindowsSp \o <<"N", "T", " ", "5", "ANY", "1">>,
    sWindowsSp \o <<"X", "P">>,
    sWindowsSp \o <<"N", "T", " ", "5", "ANY", "2">>,
    sWindowsSp \o <<"N", "T", " ", "6", "ANY", "0">> }

\* whether pattern pat matches s at position i
MatchesAt(s, i, pat) ==
  /\ i + Len(pat) - 1 <= Len(s)
  /\ \A k \in 1..Len(pat) : pat[k] = "ANY" \/ s[i + k - 1] = pat[k]

\* regexp.MatchString: an unanchored match anywhere in the string
isWindowsXPUserAgent(userAgent) ==
  \E pat \in windowsXPRegex : \E i \in 1..Len(userAgent) : MatchesAt(userAgent, i, pat)

(***************************************************************************)
(* BouncerHandler                                                          *)
(***************************************************************************)
\* NewAliasName lower-cases the product for the alias lookup
Lower(c) ==
  CASE c = "F" -> "f" [] c = "T" -> "t" [] c = "S" -> "s" [] c = "L" -> "l"
    [] OTHER -> c

NewAliasName(product) == [i \in 1..Len(product) |-> Lower(product[i])]

\* LocationPath.locationPathToString(lang): the path with its language placeholder
\* replaced by lang
locationPathToString(locationPath, lang) == <<locationPath, lang>>

\* mirrorBaseURL falling back to the HTTP base when HTTPS is required
mirrorBaseURLFallsBackToHttp(h, requireSsl) ==
  IF h.PinnedBaseURLHttps # "" /\ requireSsl
    THEN [url |-> <<"https://", h.PinnedBaseURLHttps>>, err |-> FALSE]
  ELSE IF h.PinnedBaseURLHttp # ""
    THEN [url |-> <<"http://", h.PinnedBaseURLHttp>>, err |-> FALSE]
  ELSE [url |-> << >>, err |-> TRUE]

mirrorBaseURL(h, requireSsl) ==
  IF h.PinnedBaseURLHttps # "" /\ requireSsl
    THEN [url |-> <<"https://", h.PinnedBaseURLHttps>>, err |-> FALSE]
  ELSE IF h.PinnedBaseURLHttp # "" /\ ~requireSsl
    THEN [url |-> <<"http://", h.PinnedBaseURLHttp>>, err |-> FALSE]
  ELSE [url |-> << >>, err |-> TRUE]

\* URL without the alias substitution
URLNoAlias(h, pinHttps, lang, os, prod) ==
  IF prod \notin DOMAIN h.Locations.ProductLocationMap
    THEN [url |-> << >>, err |-> FALSE]
  ELSE
    LET productData == h.Locations.ProductLocationMap[prod]
    IN  IF os \notin DOMAIN productData.Locations
          THEN [url |-> << >>, err |-> FALSE]
        ELSE
          LET base == mirrorBaseURL(h, pinHttps \/ productData.SSLOnly)
          IN  IF base.err \/ base.url = << >>
                THEN [url |-> << >>, err |-> base.err]
              ELSE [url |-> base.url \o locationPathToString(productData.Locations[os], lang),
                    err |-> FALSE]

\* URL choosing the mirror by the pin header alone, the product's SSLOnly
\* flag ignored
URLIgnoresSSLOnly(h, pinHttps, lang, os, prod) ==
  LET aliased == IF NewAliasName(prod) \in DOMAIN h.Locations.Aliases
                   THEN h.Locations.Aliases[NewAliasName(prod)] ELSE prod
  IN  IF aliased \notin DOMAIN h.Locations.ProductLocationMap
        THEN [url |-> << >>, err |-> FALSE]
      ELSE
        LET productData == h.Locations.ProductLocationMap[aliased]
        IN  IF os \notin DOMAIN productData.Locations
              THEN [url |-> << >>, err |-> FALSE]
            ELSE
              LET base == mirrorBaseURL(h, pinHttps)
              IN  IF base.err \/ base.url = << >>
                    THEN [url |-> << >>, err |-> base.err]
                  ELSE [url |-> base.url \o locationPathToString(productData.Locations[os], lang),
                        err |-> FALSE]

\* BouncerHandler.URL: url = << >> with err = FALSE is "no location found"
URL(h, pinHttps, lang, os, prod) ==
  LET aliased == IF NewAliasName(prod) \in DOMAIN h.Locations.Aliases
                   THEN h.Locations.Aliases[NewAliasName(prod)] ELSE prod
  IN  IF aliased \notin DOMAIN h.Locations.ProductLocationMap
        THEN [url |-> << >>, err |-> FALSE]
      ELSE
        LET productData == h.Locations.ProductLocationMap[aliased]
        IN  IF os \notin DOMAIN productData.Locations
              THEN [url |-> << >>, err |-> FALSE]
            ELSE
              LET base == mirrorBaseURL(h, pinHttps \/ productData.SSLOnly)
              IN  IF base.err \/ base.url = << >>
                    THEN [url |-> << >>, err |-> base.err]
                  ELSE [url |-> base.url \o locationPathToString(productData.Locations[os], lang),
                        err |-> FALSE]

\* url.Values.Encode() of the five parameters: keys sorted, values escaped;
\* kept as the record of the values
stubAttributionURL(h, params) ==
  <<h.StubRootURL, "?",
    [lang |-> params.Lang, os |-> params.OS, product |-> params.Product,
     attribution_code |-> params.AttributionCode,
     attribution_sig |-> params.AttributionSig]>>

shouldPinHttps(h, request) ==
  IF h.PinHttpsHeaderName = "" THEN FALSE
  ELSE request.Header = "https"

\* the stub condition of ServeHTTP without its `!isWinXpClient`
stubConditionAnyClient(h, params, isXp) ==
  /\ h.StubRootURL # ""
  /\ params.AttributionCode # ""
  /\ params.AttributionSig # ""
  /\ Contains(params.Product, sDashStub)

\* the condition of ServeHTTP's redirect to the stub service
stubCondition(h, params, isXp) ==
  /\ h.StubRootURL # ""
  /\ params.AttributionCode # ""
  /\ params.AttributionSig # ""
  /\ Contains(params.Product, sDashStub)
  /\ ~isXp

\* the pinning of ServeHTTP without its `reqParams.OS == "win"`
pinForWinXpAnyOS(params, isXp) ==
  IF isXp THEN [params EXCEPT !.Product = sha1Product(params.Product)]
  ELSE params

\* ServeHTTP's `if reqParams.OS == "win" && isWinXpClient`
pinForWinXp(params, isXp) ==
  IF params.OS = "win" /\ isXp
    THEN [params EXCEPT !.Product = sha1Product(params.Product)]
  ELSE params

(***************************************************************************)
(* The inputs                                                              *)
(***************************************************************************)
RECURSIVE JoinDot(_)
JoinDot(segs) ==
  IF Len(segs) = 1 THEN segs[1]
  ELSE segs[1] \o <<".">> \o JoinDot(Tail(segs))

\* the versions with 1..n segments, each taken from segs
VersionsOf(segs, n) ==
  {JoinDot(t) : t \in UNION {[1..k -> segs] : k \in 1..n}}

\* segments for compareVersions: empty, plain numbers, a number with a
\* trailing non-digit run (1esr -> 1), and one that fails Atoi (0b2 -> 0)
CmpSegments ==
  {<< >>, <<"0">>, <<"1">>, <<"0", "b", "2">>, <<"1", "e", "s", "r">>}

CmpVersions == VersionsOf(CmpSegments, MaxCmpSegs)

\* segments of the versions inside products, around the Thunderbird
\* ceilings 38.5.0 and 43.0b1
VerSegments ==
  {<<"3", "8">>, <<"4", "3">>, <<"4", "5">>, <<"0">>, <<"5">>, <<"0", "b", "1">>}

ProductVersions == VersionsOf(VerSegments, MaxVerSegs)

sPartialBase == <<"3", "8", ".", "0">>
sEsrSha1 == <<"e", "s", "r", "-", "s", "h", "a", "1">>
sStub == <<"s", "t", "u", "b">>
sSeamonkey == <<"s", "e", "a", "m", "o", "n", "k", "e", "y">>

Qualifiers ==
  {<< >>, sDashSsl, sDashStub, sDashComplete, sDashPartialDash \o sPartialBase,
   sDashSha1, sDashSsl \o sDashComplete}

AliasSuffixes ==
  {sLatest, sBeta, sBetaLatest, sSsl, sStub, sBeta \o sDashStub,
   firefoxSHA1ESRAliasSuffix, sEsrSha1, sBeta \o sDashComplete, << >>, sDashComplete}

ProductSuffixes ==
  AliasSuffixes \cup {v \o q : v \in ProductVersions, q \in Qualifiers}

ProductInputs ==
  {f \o <<"-">> \o suf : f \in {sFirefox, sThunderbird}, suf \in ProductSuffixes}
    \cup {sFirefox, sThunderbird, << >>,
          sSeamonkey \o <<"-">> \o sLatest,
          sSeamonkey \o <<"-">> \o <<"4", "5", ".", "0">> \o sDashSsl}

\* products of the requests and of the BouncerMap
pFirefoxLatest == sFirefox \o <<"-">> \o sLatest
pFirefoxStub == sFirefox \o sDashStub
pFirefoxSha1 == sFirefox \o sDashSha1
pFirefox60 == sFirefox \o <<"-", "6", "0", ".", "0">>
pFirefox60Stub == pFirefox60 \o sDashStub
pFirefox60Ssl == pFirefox60 \o sDashSsl
pFirefox52Esr == sFirefox \o <<"-", "5", "2", ".", "9", "e", "s", "r">>
pThunderbirdLatest == sThunderbird \o <<"-">> \o sLatest
pThunderbird60 == sThunderbird \o <<"-", "6", "0", ".", "0">>
pThunderbird38 == sThunderbird \o <<"-">> \o tBirdWinXPLastRelease.Version
pSeamonkey == sSeamonkey \o <<"-", "2", ".", "0">>

\* BouncerParamsFromValues hands ServeHTTP the lower-cased product
RequestProducts ==
  {<< >>, pFirefoxLatest, pFirefoxStub, pFirefox60Ssl, pThunderbirdLatest, pSeamonkey}

\* a catalogue with aliases, an SSL-only product and pinned products
MapFull ==
  [Aliases |->
     (pFirefoxLatest :> pFirefox60) @@ (pFirefoxStub :> pFirefox60Stub)
       @@ (pFirefoxSha1 :> pFirefox52Esr) @@ (pThunderbirdLatest :> pThunderbird60),
   ProductLocationMap |->
     (pFirefox60 :> [SSLOnly |-> FALSE,
                     Locations |-> ("win" :> "/firefox/60.0/win32/:lang/setup.exe")
                                     @@ ("osx" :> "/firefox/60.0/mac/:lang/firefox.dmg")])
       @@ (pFirefox60Stub :> [SSLOnly |-> FALSE,
                              Locations |-> ("win" :> "/firefox/60.0/win32/:lang/stub.exe")])
       @@ (pFirefox60Ssl :> [SSLOnly |-> TRUE,
                             Locations |-> ("win" :> "/firefox/60.0/win32/:lang/setup.exe")
                                             @@ ("osx" :> "/firefox/60.0/mac/:lang/firefox.dmg")])
       @@ (pFirefox52Esr :> [SSLOnly |-> FALSE,
                             Locations |-> ("win" :> "/firefox/52.9.0esr/win32/:lang/setup.exe")])
       @@ (pThunderbird60 :> [SSLOnly |-> FALSE,
                              Locations |-> ("win" :> "/thunderbird/60.0/win32/:lang/setup.exe")
                                              @@ ("osx" :> "/thunderbird/60.0/mac/:lang/tb.dmg")])
       @@ (pThunderbird38 :> [SSLOnly |-> TRUE,
                              Locations |-> ("win" :> "/thunderbird/38.5.0/win32/:lang/setup.exe")])]

\* a catalogue where an alias names another alias, which is no product, and
\* where a product carries the name other catalogues use as an alias
MapSparse ==
  [Aliases |->
     (pFirefoxLatest :> pFirefoxSha1) @@ (pFirefoxSha1 :> pFirefox52Esr),
   ProductLocationMap |->
     (pFirefox52Esr :> [SSLOnly |-> TRUE,
                        Locations |-> ("win" :> "/firefox/52.9.0esr/win32/:lang/setup.exe")])
       @@ (pFirefoxStub :> [SSLOnly |-> FALSE,
                            Locations |-> ("osx" :> "/firefox/stub/mac/:lang/stub.dmg")])]

BouncerMaps == {MapFull, MapSparse}

Handlers ==
  [Locations : BouncerMaps,
   PinHttpsHeaderName : {"", "X-Forwarded-Proto"},
   PinnedBaseURLHttp : {"", "download.cdn.example/pub"},
   PinnedBaseURLHttps : {"", "download-ssl.cdn.example/pub"},
   StubRootURL : {"", "https://stub.example/"}]

uaWinXP == <<"(">> \o sWindowsSp \o <<"N", "T", " ", "5", ".", "1", ";", ")">>
uaWin7 == <<"(">> \o sWindowsSp \o <<"N", "T", " ", "6", ".", "1", ";", ")">>
uaIEXP == <<"(">> \o sWindowsSp \o <<"X", "P", ")">>

\* a request: the parsed query parameters (BouncerParams), the User-Agent
\* and the value of the header PinHttpsHeaderName names
Requests ==
  [Product : RequestProducts,
   OS : {"", "win", "osx"},
   Lang : {"", "fr"},
   PrintOnly : BOOLEAN,
   AttributionCode : {"", "code"},
   AttributionSig : {"", "sig"},
   UserAgent : {uaWinXP, uaWin7, uaIEXP},
   Header : {"", "https"}]

BouncerParamsOf(request) ==
  [Product |-> request.Product, OS |-> request.OS, Lang |-> request.Lang,
   PrintOnly |-> request.PrintOnly, AttributionCode |-> request.AttributionCode,
   AttributionSig |-> request.AttributionSig]

(***************************************************************************)
(* The state                                                               *)
(***************************************************************************)
VARIABLES
  pc,             \* the position of the call in progress
  a, b,           \* the arguments of compareVersions
  cmp,            \* [ab, ba]: compareVersions(a, b) and compareVersions(b, a)
  product,        \* the argument of sha1Product
  pinned,         \* sha1Product(product)
  repinned,       \* sha1Product(pinned)
  handler,        \* the BouncerHandler
  requireHTTPS,   \* the argument of mirrorBaseURL
  mirror,         \* the result of mirrorBaseURL
  req,            \* the request ServeHTTP was called with
  reqParams,      \* ServeHTTP's reqParams
  isWinXpClient,  \* ServeHTTP's isWinXpClient
  urlRet,         \* ServeHTTP's `url, err`, the result of b.URL
  resp            \* the response written

vars ==
  <<pc, a, b, cmp, product, pinned, repinned, handler, requireHTTPS, mirror,
    req, reqParams, isWinXpClient, urlRet, resp>>

\* what a variable holds while the call in progress does not use it: None
\* for a string, a sequence or a boolean, Unset for a record
None == "none"
Unset == [unset |-> TRUE]
NoResponse == [code |-> 0, location |-> << >>, body |-> << >>]

InitCompare ==
  /\ pc = "compareVersions"
  /\ a \in CmpVersions /\ b \in CmpVersions
  /\ product = None /\ handler = Unset /\ requireHTTPS = None /\ req = Unset

InitSha1 ==
  /\ pc = "sha1Product"
  /\ product \in ProductInputs
  /\ a = None /\ b = None /\ handler = Unset /\ requireHTTPS = None /\ req = Unset

InitMirror ==
  /\ pc = "mirrorBaseURL"
  /\ handler \in {h \in Handlers : h.Locations = MapSparse /\ h.StubRootURL = ""
                                     /\ h.PinHttpsHeaderName = ""}
  /\ requireHTTPS \in BOOLEAN
  /\ a = None /\ b = None /\ product = None /\ req = Unset

InitServe ==
  /\ pc = "ServeHTTP"
  /\ handler \in Handlers
  /\ req \in Requests
  /\ a = None /\ b = None /\ product = None /\ requireHTTPS = None

Init ==
  /\ \/ InitCompare
     \/ InitSha1
     \/ InitMirror
     \/ InitServe
  /\ cmp = Unset /\ pinned = None /\ repinned = None /\ mirror = Unset
  /\ reqParams = Unset /\ isWinXpClient = None /\ urlRet = Unset
  /\ resp = NoResponse

(***************************************************************************)
(* The calls of the pure functions                                         *)
(***************************************************************************)
CallCompareVersions ==
  /\ pc = "compareVersions"
  /\ cmp' = [ab |-> compareVersions(a, b), ba |-> compareVersions(b, a)]
  /\ pc' = "compared"
  /\ UNCHANGED <<a, b, product, pinned, repinned, handler, requireHTTPS, mirror,
                 req, reqParams, isWinXpClient, urlRet, resp>>

CallSha1Product ==
  /\ pc = "sha1Product"
  /\ pinned' = sha1Product(product)
  /\ pc' = "pinned"
  /\ UNCHANGED <<a, b, cmp, product, repinned, handler, requireHTTPS, mirror,
                 req, reqParams, isWinXpClient, urlRet, resp>>

CallSha1ProductAgain ==
  /\ pc = "pinned"
  /\ repinned' = sha1Product(pinned)
  /\ pc' = "repinned"
  /\ UNCHANGED <<a, b, cmp, product, pinned, handler, requireHTTPS, mirror,
                 req, reqParams, isWinXpClient, urlRet, resp>>

CallMirrorBaseURL ==
  /\ pc = "mirrorBaseURL"
  /\ mirror' = mirrorBaseURL(handler, requireHTTPS)
  /\ pc' = "mirrored"
  /\ UNCHANGED <<a, b, cmp, product, pinned, repinned, handler, requireHTTPS,
                 req, reqParams, isWinXpClient, urlRet, resp>>

(***************************************************************************)
(* BouncerHandler.ServeHTTP, in the order of its statements                *)
(***************************************************************************)
\* `if reqParams.Product == ""`: the redirect to www.mozilla.org
RedirectNoProduct ==
  /\ pc = "ServeHTTP"
  /\ req.Product = << >>
  /\ reqParams' = BouncerParamsOf(req)
  /\ resp' = [code |-> 302, location |-> <<"http://www.mozilla.org/">>, body |-> << >>]
  /\ pc' = "done"
  /\ UNCHANGED <<a, b, cmp, product, pinned, repinned, handler, requireHTTPS,
                 mirror, req, isWinXpClient, urlRet>>

\* the defaults of OS and Lang, and the user agent's classification
ApplyDefaults ==
  /\ pc = "ServeHTTP"
  /\ req.Product # << >>
  /\ reqParams' = [BouncerParamsOf(req) EXCEPT
                     !.OS = IF @ = "" THEN DefaultOS ELSE @,
                     !.Lang = IF @ = "" THEN DefaultLang ELSE @]
  /\ isWinXpClient' = isWindowsXPUserAgent(req.UserAgent)
  /\ pc' = "stub"
  /\ UNCHANGED <<a, b, cmp, product, pinned, repinned, handler, requireHTTPS,
                 mirror, req, urlRet, resp>>

\* the redirect to the stub service
RedirectToStub ==
  /\ pc = "stub"
  /\ stubCondition(handler, reqParams, isWinXpClient)
  /\ resp' = [code |-> 302, location |-> stubAttributionURL(handler, reqParams),
              body |-> << >>]
  /\ pc' = "done"
  /\ UNCHANGED <<a, b, cmp, product, pinned, repinned, handler, requireHTTPS,
                 mirror, req, reqParams, isWinXpClient, urlRet>>

\* the sha1 product for a Windows XP / Vista client
PinProduct ==
  /\ pc = "stub"
  /\ ~stubCondition(handler, reqParams, isWinXpClient)
  /\ reqParams' = pinForWinXp(reqParams, isWinXpClient)
  /\ pc' = "URL"
  /\ UNCHANGED <<a, b, cmp, product, pinned, repinned, handler, requireHTTPS,
                 mirror, req, isWinXpClient, urlRet, resp>>

\* `url, err := b.URL(b.shouldPinHttps(req), reqParams.Lang, reqParams.OS,
\* reqParams.Product)`
CallURL ==
  /\ pc = "URL"
  /\ urlRet' = URL(handler, shouldPinHttps(handler, req), reqParams.Lang,
                   reqParams.OS, reqParams.Product)
  /\ pc' = "respond"
  /\ UNCHANGED <<a, b, cmp, product, pinned, repinned, handler, requireHTTPS,
                 mirror, req, reqParams, isWinXpClient, resp>>

\* `if err != nil`: 500
RespondError ==
  /\ pc = "respond"
  /\ urlRet.err
  /\ resp' = [code |-> 500, location |-> << >>, body |-> <<"Internal Server Error.">>]
  /\ pc' = "done"
  /\ UNCHANGED <<a, b, cmp, product, pinned, repinned, handler, requireHTTPS,
                 mirror, req, reqParams, isWinXpClient, urlRet>>

\* `if url == ""`: 404
RespondNotFound ==
  /\ pc = "respond"
  /\ ~urlRet.err
  /\ urlRet.url = << >>
  /\ resp' = [code |-> 404, location |-> << >>, body |-> <<"404 page not found">>]
  /\ pc' = "done"
  /\ UNCHANGED <<a, b, cmp, product, pinned, repinned, handler, requireHTTPS,
                 mirror, req, reqParams, isWinXpClient, urlRet>>

\* `if reqParams.PrintOnly`: 200 with the URL as the body
RespondPrint ==
  /\ pc = "respond"
  /\ ~urlRet.err
  /\ urlRet.url # << >>
  /\ reqParams.PrintOnly
  /\ resp' = [code |-> 200, location |-> << >>, body |-> urlRet.url]
  /\ pc' = "done"
  /\ UNCHANGED <<a, b, cmp, product, pinned, repinned, handler, requireHTTPS,
                 mirror, req, reqParams, isWinXpClient, urlRet>>

\* the redirect to the mirror
RespondRedirect ==
  /\ pc = "respond"
  /\ ~urlRet.err
  /\ urlRet.url # << >>
  /\ ~reqParams.PrintOnly
  /\ resp' = [code |-> 302, location |-> urlRet.url, body |-> << >>]
  /\ pc' = "done"
  /\ UNCHANGED <<a, b, cmp, product, pinned, repinned, handler, requireHTTPS,
                 mirror, req, reqParams, isWinXpClient, urlRet>>

Next ==
  \/ CallCompareVersions
  \/ CallSha1Product
  \/ CallSha1ProductAgain
  \/ CallMirrorBaseURL
  \/ RedirectNoProduct
  \/ ApplyDefaults
  \/ RedirectToStub
  \/ PinProduct
  \/ CallURL
  \/ RespondError
  \/ RespondNotFound
  \/ RespondPrint
  \/ RespondRedirect

Spec == Init /\ [][Next]_vars

(***************************************************************************)
(* Vocabulary of the properties                                            *)
(***************************************************************************)
\* sha1Product has been applied to product
Pinned == pc \in {"pinned", "repinned"}

\* product is "<family>-<suffix>"
HasFamily(p, family) ==
  Len(SplitN2(p, "-")) = 2 /\ SplitN2(p, "-")[1] = family

SuffixOf(p) == SplitN2(p, "-")[2]

\* a complete or partial update package
IsUpdatePackage(suffix) ==
  HasSuffix(suffix, sDashComplete) \/ Contains(suffix, sDashPartialDash)

\* the channel ceilings the tests of sha1Product name for Firefox
firefoxCeilingRelease == <<"4", "3", ".", "0", ".", "1">>
firefoxCeilingBeta == <<"4", "4", ".", "0", "b", "1">>
firefoxCeilingEsr == <<"3", "8", ".", "5", ".", "1", "e", "s", "r">>

FirefoxCeilingOf(ver) ==
  IF HasSuffix(ver, <<"e", "s", "r">>) THEN firefoxCeilingEsr
  ELSE IF Contains(ver, sDotZeroB) THEN firefoxCeilingBeta
  ELSE firefoxCeilingRelease

\* the suffixes the ceiling rule is stated for: the version-less aliases
\* latest, beta and beta-stub, and the suffixes that start with a version
IsVersionlessAlias(suffix) == suffix \in {sLatest, sBeta, sBeta \o sDashStub}

StartsWithVersion(suffix) == suffix # << >> /\ suffix[1] \in Digits

\* what the ceiling rule asks of a Firefox suffix
FirefoxCeilingPin(suffix) ==
  IF suffix = sLatest THEN firefoxCeilingRelease
  ELSE IF suffix = sBeta THEN firefoxCeilingBeta
  ELSE IF suffix = sBeta \o sDashStub THEN firefoxCeilingBeta \o sDashStub
  ELSE
    LET parts == SplitN2(suffix, "-")
        ceiling == FirefoxCeilingOf(parts[1])
    IN  IF compareVersions(parts[1], ceiling) = -1 THEN suffix
        ELSE IF Len(parts) = 1 THEN ceiling
        ELSE ceiling \o <<"-">> \o parts[2]

\* the ceiling of the channel a Thunderbird version token belongs to
TBirdCeilingOf(ver) ==
  IF Contains(ver, sDotZeroB) THEN tBirdWinXPLastBeta.Version
  ELSE tBirdWinXPLastRelease.Version

\* ServeHTTP was called with a product and has come to the call of b.URL
Resolved == urlRet # Unset

\* the request's parameters with the defaults of OS and Lang
Defaulted(request) ==
  [BouncerParamsOf(request) EXCEPT
     !.OS = IF @ = "" THEN "win" ELSE @,
     !.Lang = IF @ = "" THEN "en-US" ELSE @]

\* the product looked up in the product map: the product of the call after
\* one alias substitution
EffectiveProduct ==
  IF NewAliasName(reqParams.Product) \in DOMAIN handler.Locations.Aliases
    THEN handler.Locations.Aliases[NewAliasName(reqParams.Product)]
  ELSE reqParams.Product

ProductFound == EffectiveProduct \in DOMAIN handler.Locations.ProductLocationMap

ProductData == handler.Locations.ProductLocationMap[EffectiveProduct]

LocationFound == ProductFound /\ reqParams.OS \in DOMAIN ProductData.Locations

\* the pin header asks for HTTPS
HeaderPinsHttps == handler.PinHttpsHeaderName # "" /\ req.Header = "https"

\* the URL the response delivers, << >> when it delivers none
DeliveredURL ==
  IF resp.code = 302 THEN resp.location
  ELSE IF resp.code = 200 THEN resp.body
  ELSE << >>

\* the response is the redirect to the stub service
IsStubRedirect ==
  /\ resp.code = 302
  /\ resp.location = <<handler.StubRootURL, "?",
                       [lang |-> Defaulted(req).Lang, os |-> Defaulted(req).OS,
                        product |-> req.Product,
                        attribution_code |-> req.AttributionCode,
                        attribution_sig |-> req.AttributionSig]>>

(***************************************************************************)
(* The properties                                                          *)
(***************************************************************************)
\* C1: for a product "firefox-<suffix>" whose suffix is no update package,
\* sha1Product returns "firefox-" followed by the suffix unchanged when its
\* version is below its channel's ceiling (release 43.0.1, beta 44.0b1,
\* extended-support 38.5.1esr), by the ceiling with the trailing qualifier
\* carried over otherwise, and by the ceiling for the aliases latest, beta
\* and beta-stub.
C1_FirefoxPinnedToCeiling ==
  (Pinned /\ HasFamily(product, sFirefox)
     /\ ~IsUpdatePackage(SuffixOf(product))
     /\ (IsVersionlessAlias(SuffixOf(product)) \/ StartsWithVersion(SuffixOf(product))))
    => pinned = sFirefox \o <<"-">> \o FirefoxCeilingPin(SuffixOf(product))

\* C2: for a firefox or thunderbird product whose suffix ends in "-complete"
\* or contains "-partial-", sha1Product returns the product unchanged.
C2_UpdatePackagesUnchanged ==
  (Pinned /\ (HasFamily(product, sFirefox) \/ HasFamily(product, sThunderbird))
     /\ IsUpdatePackage(SuffixOf(product)))
    => pinned = product

\* a Thunderbird complete update whose version is above the ceiling has been
\* pinned, and is unchanged
C2_Witness ==
  /\ pc = "pinned"
  /\ product = sThunderbird \o <<"-", "4", "5", ".", "0">> \o sDashComplete
  /\ pinned = product

\* C3: sha1Product is idempotent: sha1Product(sha1Product(p)) =
\* sha1Product(p) for every product p.
C3_Sha1ProductIdempotent ==
  pc = "repinned" => repinned = pinned

\* an alias has been pinned to a version, and pinning that version again
\* has left it alone
C3_Witness ==
  /\ pc = "repinned"
  /\ product = sThunderbird \o <<"-">> \o sBeta
  /\ pinned = sThunderbird \o <<"-">> \o tBirdWinXPLastBeta.Version
  /\ repinned = pinned

\* C4: compareVersions is reflexive and antisymmetric:
\* compareVersions(v, v) = 0 and compareVersions(a, b) =
\* -compareVersions(b, a), also for versions with different numbers of
\* segments.
C4_CompareReflexiveAntisymmetric ==
  pc = "compared" =>
    /\ a = b => cmp.ab = 0
    /\ cmp.ab = 0 - cmp.ba

\* C5: for a request that resolves to a product whose SSLOnly flag is set,
\* the URL delivered never has an http:// base: where the product has a
\* location for the OS, the answer is an https:// URL or the no-mirror
\* error (500).
C5_SSLOnlyNeverHttp ==
  (pc = "done" /\ Resolved /\ ProductFound /\ ProductData.SSLOnly) =>
    /\ DeliveredURL = << >> \/ DeliveredURL[1] = "https://"
    /\ LocationFound =>
         \/ resp.code = 500
         \/ DeliveredURL # << >> /\ DeliveredURL[1] = "https://"

\* an SSL-only product was asked for without the pin header, with an HTTP
\* base and no HTTPS base configured, and the answer is the error
C5_Witness ==
  /\ pc = "done" /\ Resolved /\ LocationFound /\ ProductData.SSLOnly
  /\ ~HeaderPinsHttps
  /\ handler.PinnedBaseURLHttp # "" /\ handler.PinnedBaseURLHttps = ""
  /\ resp.code = 500

\* C6, as claimed: mirrorBaseURL returns https:// + the HTTPS base when
\* HTTPS is required and an HTTPS base is configured; in every other case
\* http:// + the HTTP base whenever an HTTP base is configured; the error
\* only when neither applies.
C6_HttpFallbackAsClaimed ==
  pc = "mirrored" =>
    mirror =
      IF requireHTTPS /\ handler.PinnedBaseURLHttps # ""
        THEN [url |-> <<"https://", handler.PinnedBaseURLHttps>>, err |-> FALSE]
      ELSE IF handler.PinnedBaseURLHttp # ""
        THEN [url |-> <<"http://", handler.PinnedBaseURLHttp>>, err |-> FALSE]
      ELSE [url |-> << >>, err |-> TRUE]

\* C6, amended: mirrorBaseURL returns https:// + the HTTPS base when HTTPS
\* is required and an HTTPS base is configured; http:// + the HTTP base when
\* HTTPS is not required and an HTTP base is configured; the no-mirror error
\* in every other case, so HTTPS required without an HTTPS base is an error
\* even when an HTTP base is configured.
C6_MirrorBySchemeRequired ==
  pc = "mirrored" =>
    /\ (requireHTTPS /\ handler.PinnedBaseURLHttps # "")
         => mirror = [url |-> <<"https://", handler.PinnedBaseURLHttps>>, err |-> FALSE]
    /\ (~requireHTTPS /\ handler.PinnedBaseURLHttp # "")
         => mirror = [url |-> <<"http://", handler.PinnedBaseURLHttp>>, err |-> FALSE]
    /\ (requireHTTPS /\ handler.PinnedBaseURLHttps = "")
         => mirror = [url |-> << >>, err |-> TRUE]
    /\ (~requireHTTPS /\ handler.PinnedBaseURLHttp = "")
         => mirror = [url |-> << >>, err |-> TRUE]

\* HTTPS was required with only an HTTP base configured, and mirrorBaseURL
\* returned the error
C6_Witness ==
  /\ pc = "mirrored"
  /\ requireHTTPS
  /\ handler.PinnedBaseURLHttps = "" /\ handler.PinnedBaseURLHttp # ""
  /\ mirror.err

\* C7: a request with a product is answered with the redirect to the stub
\* attribution URL exactly when a stub root is configured, attribution_code
\* and attribution_sig are both non-empty, the requested product contains
\* "-stub" and the user agent is no Windows XP / Vista client; the URL
\* carries the requested product, not a pinned one, b.URL has not been
\* called, and the BouncerMap plays no part.
C7_StubRedirectExactlyWhenEligible ==
  (pc = "done" /\ req.Product # << >>) =>
    /\ IsStubRedirect <=>
         /\ handler.StubRootURL # ""
         /\ req.AttributionCode # ""
         /\ req.AttributionSig # ""
         /\ Contains(req.Product, sDashStub)
         /\ ~isWindowsXPUserAgent(req.UserAgent)
    /\ IsStubRedirect => ~Resolved

\* a stub request with attribution from a current client was redirected to
\* the stub service, under a catalogue that does not hold its product for
\* the OS
C7_Witness ==
  /\ pc = "done"
  /\ req.Product = pFirefoxStub /\ req.UserAgent = uaWin7
  /\ handler.Locations = MapSparse /\ req.OS = "win"
  /\ IsStubRedirect

\* C8: for a request with a product that is not sent to the stub service,
\* the answer is 404 exactly when the effective product is not in the
\* product map or the OS is not among its locations; 500 exactly when the
\* location is found and no mirror base is configured for the scheme
\* required; in every other case the composed URL is delivered, as a 302 or,
\* with print set, as the body of a 200.
C8_NotFoundErrorOrDelivered ==
  (pc = "done" /\ Resolved) =>
    LET needHttps == HeaderPinsHttps \/ (ProductFound /\ ProductData.SSLOnly)
        noMirror  == IF needHttps THEN handler.PinnedBaseURLHttps = ""
                     ELSE handler.PinnedBaseURLHttp = ""
        composed  == (IF needHttps THEN <<"https://", handler.PinnedBaseURLHttps>>
                      ELSE <<"http://", handler.PinnedBaseURLHttp>>)
                       \o <<ProductData.Locations[reqParams.OS], reqParams.Lang>>
    IN  /\ resp.code = 404 <=> ~LocationFound
        /\ resp.code = 500 <=> (LocationFound /\ noMirror)
        /\ (LocationFound /\ ~noMirror) =>
             IF req.PrintOnly THEN resp.code = 200 /\ resp.body = composed
             ELSE resp.code = 302 /\ resp.location = composed

\* a product absent from the map was asked for with no mirror configured at
\* all, and the answer is 404, not 500
C8_Witness ==
  /\ pc = "done" /\ Resolved
  /\ ~ProductFound
  /\ handler.PinnedBaseURLHttp = "" /\ handler.PinnedBaseURLHttps = ""
  /\ resp.code = 404

C10_ThunderbirdNeverAboveCeiling ==
  (Pinned /\ HasFamily(product, sThunderbird)
     /\ ~IsUpdatePackage(SuffixOf(product))) =>
    LET ver == SplitN2(SuffixOf(pinned), "-")[1]
    IN  compareVersions(ver, TBirdCeilingOf(ver)) # 1

====
